---- MODULE Spec2Model ----
(***************************************************************************)
(* Request/response correlation of the widget's channel binding            *)
(* (initCommunication over an anywidget model) and the App components     *)
(* that drive it.                                                          *)
(*                                                                         *)
(* One request = one sendMessage call.  Its promise, its deadline timer    *)
(* and its document listener sit at the same index of the sequences below. *)
(* Time is counted in ticks; a timer carries the ticks elapsed since it    *)
(* was armed.                                                              *)
(***************************************************************************)
EXTENDS Integers, Sequences, FiniteSets, TLC

\* ---------------------------------------------------------------- bounds
MaxReq == 2          \* sendMessage calls in one run
MaxTimeout == 2      \* largest timeout a caller passes, in ticks
MaxEvents == 3       \* events the event stream delivers in one run
MaxRenders == 2      \* renders of the App in one run
MaxResults == 4      \* tool results the host delivers in one run
MaxWait == 3         \* ticks of waiting that are told apart

\* The default of sendMessage's timeout parameter (30_000 ms), in ticks.
DefaultTimeout == MaxTimeout

\* -------------------------------------------------------------- constants
\* MULTIMODAL_TABS: the recognized modality kinds.
MULTIMODAL_TABS == {"CHART", "DESCRIPTION", "DATAFRAME"}

\* Values a tab change may carry: the recognized kinds and one that is not.
TabValues == MULTIMODAL_TABS \cup {"UNKNOWN"}

\* Status values of a modality trait, as StatusRenderer distinguishes them.
Status == {"initial", "computating", "computated", "failed"}

\* The status traits whose host updates are followed (spec_status); the two
\* others are mirrored by the same useModelState code.
SyncedTraits == {"CHART"}

\* available_modalities values the host pushes (first element decides).
AvailableLists == {<<>>, <<"CHART">>, <<"DESCRIPTION", "CHART">>, <<"DATAFRAME">>}

\* Error texts a response may carry.
ErrorTexts == {"boom"}

TimeoutError == "Failed: Timeout exceeded"
RequestFailedError == "Failed: Request was failed"

\* Messages the host may emit on msg:custom: responses for any id (0 is an
\* id never handed out), successful or failed with an error text, and a
\* message of another type.
Messages ==
  [type : {"databao_response"}, messageId : 0 .. MaxReq,
   success : {TRUE}, error : {""}]
  \cup
  [type : {"databao_response"}, messageId : 0 .. MaxReq,
   success : {FALSE}, error : ErrorTexts]
  \cup
  [type : {"other"}, messageId : {0}, success : {TRUE}, error : {""}]

VARIABLES
  requests,   \* raw messages handed to model.send, in call order
  promises,   \* per call: [state, reason] of the returned promise
  timers,     \* per call: [state, delay, age] of the deadline timer
  listeners,  \* calls whose document listener is still registered
  unhandled,  \* calls whose promise was rejected with no reaction attached
  modality,   \* host-synchronised status trait of each modality kind
  asked,      \* history: per call, the timeout argument of the call
  carried,    \* history: per call, the error text of the response that rejected it
  lastEvent   \* history: what the App with available_modalities handled last

vars == <<requests, promises, timers, listeners, unhandled, modality,
          asked, carried>>

\* The event-stream client (subscribeOnSpecGeneration and its App).
VARIABLES
  eventSource, \* "none" before the subscription, then "open" or "closed"
  timer,       \* [state, delay, age] of the subscription's deadline timer
  specStatus,  \* App state: ConnectionStatus
  spec,        \* App state: the chart value, "null" when none
  nSuccess,    \* history: invocations of onSuccess
  nError,      \* history: invocations of onError
  faults,      \* history: exceptions thrown out of an event handler
  sinceStart,  \* history: ticks since the subscription started
  sinceMessage, \* history: ticks since the last message that parsed, or the start
  received     \* history: events the stream has delivered

streamVars == <<eventSource, timer, specStatus, spec, nSuccess, nError,
                faults, sinceStart, sinceMessage, received>>

\* The state before the App of the event-stream client is mounted.
StreamIdle ==
  /\ eventSource = "none"
  /\ timer = [state |-> "none", delay |-> 0, age |-> 0]
  /\ specStatus = "initial"
  /\ spec = "null"
  /\ nSuccess = 0
  /\ nError = 0
  /\ faults = 0
  /\ sinceStart = 0
  /\ sinceMessage = 0
  /\ received = 0

\* Where the channel binding is between two events.
VARIABLES
  sending,    \* the call whose executor has called model.send and not yet
              \* registered its timer and listener; 0 when there is none
  registered  \* number of msg:custom handlers registered on the model

\* The tool-host client (DatabaoApp).
VARIABLES
  mcpPhase,   \* initApp: "idle", "connecting", "connected" or "failed"
  mcpData,    \* state data: the visualization data, "null" when none
  mcpError,   \* state error: the error text, "null" when none
  mcpResults, \* history: tool results the host has delivered
  mcpWaited,  \* history: ticks spent connected with the waiting view shown
  mcpLast     \* history: how ontoolresult ended on the last result:
              \* "stored", "ignored" or "failed"; "none" before the first

toolVars == <<mcpPhase, mcpData, mcpError, mcpResults, mcpWaited, mcpLast>>

\* The state before DatabaoApp is mounted.
ToolIdle ==
  /\ mcpPhase = "idle"
  /\ mcpData = "null"
  /\ mcpError = "null"
  /\ mcpResults = 0
  /\ mcpWaited = 0
  /\ mcpLast = "none"

restVars == <<sending, registered, toolVars>>

Calls == 1 .. Len(requests)

\* ------------------------------------------------------------- the router
\* generateId: a token not handed out before; n ids were generated so far.
generateIdConstant(n) == 1

generateId(n) == n + 1

\* createRawMessage
createRawMessage(action, payload, n) ==
  [type |-> "databao_request",
   messageId |-> generateId(n),
   action |-> [type |-> action, payload |-> payload]]

\* resolve/reject of the promise: a settled promise ignores later calls.
SettleOverwrite(p, state, reason) == [state |-> state, reason |-> reason]

Settle(p, state, reason) ==
  IF p.state = "pending" THEN [state |-> state, reason |-> reason] ELSE p

\* setTimeout(..., timeout)
NewTimerNoDelay(timeout) == [state |-> "armed", delay |-> 0, age |-> 0]

NewTimer(timeout) == [state |-> "armed", delay |-> timeout, age |-> 0]

\* clearTimeout(timer): cancels an armed timer, no effect on any other.
clearTimeout(t) ==
  IF t.state = "armed" THEN [t EXCEPT !.state = "cleared", !.age = 0] ELSE t

\* The state the router's operators transform.
Router == [promises |-> promises, timers |-> timers, listeners |-> listeners,
           unhandled |-> unhandled]

\* A rejection with no reaction attached is an unhandled rejection: neither
\* App attaches then/catch to, or awaits, the promise sendMessage returns.
Rejected(r, c, p) ==
  IF r.promises[c].state = "pending" /\ p.state = "rejected"
  THEN r.unhandled \cup {c} ELSE r.unhandled

\* handler(event) of call c, registered with {once: true}.
handlerSilentFailure(r, c, detail) ==
  LET p == IF detail.success THEN Settle(r.promises[c], "resolved", "none")
           ELSE r.promises[c]
  IN [r EXCEPT !.timers[c] = clearTimeout(r.timers[c]),
               !.promises[c] = p,
               !.listeners = r.listeners \ {c}]

handler(r, c, detail) ==
  LET p == IF detail.success THEN Settle(r.promises[c], "resolved", "none")
           ELSE Settle(r.promises[c], "rejected", RequestFailedError)
  IN [r EXCEPT !.timers[c] = clearTimeout(r.timers[c]),
               !.promises[c] = p,
               !.listeners = r.listeners \ {c},
               !.unhandled = Rejected(r, c, p)]

\* A listener added for event type key receives an event of type eventType.
ListensBroadcast(key, eventType) == TRUE

Listens(key, eventType) == key = eventType

\* document.dispatchEvent: every registered listener of the event type runs,
\* in registration order.
RECURSIVE dispatchFrom(_, _, _, _)
dispatchFrom(r, c, eventType, detail) ==
  IF c > Len(requests) THEN r
  ELSE dispatchFrom(
         IF c \in r.listeners /\ Listens(requests[c].messageId, eventType)
         THEN handler(r, c, detail) ELSE r,
         c + 1, eventType, detail)

dispatchEvent(r, eventType, detail) == dispatchFrom(r, 1, eventType, detail)

\* onAcceptMessage: only msg.success travels in the event's detail.
onAcceptMessage(r, msg) ==
  dispatchEvent(r, msg.messageId, [success |-> msg.success])

\* model.on("msg:custom", ...)
onCustomMessage(r, msg) ==
  IF msg.type # "databao_response" THEN r ELSE onAcceptMessage(r, msg)

\* The model emits msg:custom: each of the n registered handlers runs on the
\* message, one after the other.
RECURSIVE emitCustomMessage(_, _, _)
emitCustomMessage(r, msg, n) ==
  IF n = 0 THEN r
  ELSE emitCustomMessage(onCustomMessage(r, msg), msg, n - 1)

SetRouter(r) ==
  /\ promises' = r.promises
  /\ timers' = r.timers
  /\ listeners' = r.listeners
  /\ unhandled' = r.unhandled

\* sendMessage: the promise executor, run synchronously by the call.
sendMessage(action, payload, timeout) ==
  /\ Len(requests) < MaxReq
  /\ requests' = Append(requests, createRawMessage(action, payload, Len(requests)))
  /\ promises' = Append(promises, [state |-> "pending", reason |-> "none"])
  /\ timers' = Append(timers, NewTimer(timeout))
  /\ listeners' = listeners \cup {Len(requests) + 1}
  /\ asked' = Append(asked, timeout)
  /\ carried' = Append(carried, "none")
  /\ UNCHANGED <<unhandled, modality>>

\* sendMessage, first part of the executor: the message is created and handed
\* to model.send; no timer and no listener exist for it yet.
sendMessageSend(action, payload, timeout) ==
  /\ sending = 0
  /\ Len(requests) < MaxReq
  /\ requests' = Append(requests, createRawMessage(action, payload, Len(requests)))
  /\ promises' = Append(promises, [state |-> "pending", reason |-> "none"])
  /\ timers' = Append(timers, [state |-> "none", delay |-> timeout, age |-> 0])
  /\ asked' = Append(asked, timeout)
  /\ carried' = Append(carried, "none")
  /\ sending' = Len(requests) + 1
  /\ UNCHANGED <<listeners, unhandled, modality>>

\* sendMessage, rest of the executor after model.send has returned: the timer
\* is started and the listener added.
sendMessageRegister ==
  /\ sending # 0
  /\ timers' = [timers EXCEPT ![sending] = NewTimer(asked[sending])]
  /\ listeners' = listeners \cup {sending}
  /\ sending' = 0
  /\ UNCHANGED <<requests, promises, unhandled, modality, asked, carried>>

\* The setTimeout callback of call c: reject with the timeout error.
timerCallback(r, c) ==
  LET p == Settle(r.promises[c], "rejected", TimeoutError)
  IN [r EXCEPT !.timers[c] = [@ EXCEPT !.state = "fired", !.age = 0],
               !.promises[c] = p,
               !.unhandled = Rejected(r, c, p)]

\* ------------------------------------------------------------ environment
\* A timer callback that hands the request to the transport once more.
TimerFireResends(c) ==
  /\ timers[c].state = "armed"
  /\ timers[c].age >= timers[c].delay
  /\ SetRouter(timerCallback(Router, c))
  /\ requests' = Append(requests, requests[c])
  /\ UNCHANGED <<modality, asked, carried>>

\* The event loop runs the callback of a timer whose delay has elapsed.
TimerFire(c) ==
  /\ timers[c].state = "armed"
  /\ timers[c].age >= timers[c].delay
  /\ SetRouter(timerCallback(Router, c))
  /\ UNCHANGED <<requests, modality, asked, carried>>

\* One tick of time passes.  The callback of an expired timer is run before
\* the next tick; any other event may still be handled before it.
Tick ==
  /\ \E c \in Calls : timers[c].state = "armed"
  /\ \A c \in Calls :
       timers[c].state = "armed" => timers[c].age < timers[c].delay
  /\ timers' = [c \in Calls |->
                  IF timers[c].state = "armed"
                  THEN [timers[c] EXCEPT !.age = @ + 1] ELSE timers[c]]
  /\ UNCHANGED <<requests, promises, listeners, unhandled, modality,
                 asked, carried>>

\* The calls whose promise msg rejected.
RejectedBy(r) ==
  {c \in Calls : promises[c].state = "pending" /\ r.promises[c].state = "rejected"}

\* The host emits a custom message; the msg:custom handler runs.
Deliver(msg) ==
  LET r == emitCustomMessage(Router, msg, registered)
  IN /\ UNCHANGED <<requests, modality, asked>>
     /\ SetRouter(r)
     /\ carried' = [c \in Calls |->
                      IF c \in RejectedBy(r) THEN msg.error ELSE carried[c]]

\* The host changes a status trait; useModelState mirrors it.
HostSetStatus(kind, status) ==
  /\ modality[kind] # status
  /\ modality' = [modality EXCEPT ![kind] = status]
  /\ UNCHANGED <<requests, promises, timers, listeners, unhandled,
                 asked, carried>>

\* model.send hands a message to msg:custom before it returns, while the
\* executor that called it has not yet registered its timer and listener.
ReplyDuringSend(msg) ==
  /\ sending # 0
  /\ Deliver(msg)

\* -------------------------------------------------------------- the Apps
\* A type guard that lets every tab value through.
isMultimodalTabTypeAny(tab) == tab = tab

isMultimodalTabType(tab) == tab \in MULTIMODAL_TABS

\* A render of the App: useRef(initCommunication(model)) evaluates its
\* argument again, which registers one more msg:custom handler; the instance
\* kept in the ref stays the first one.
Render ==
  /\ registered < MaxRenders
  /\ registered' = registered + 1
  /\ UNCHANGED vars

\* App with the init request: the mount effect issues INIT_WIDGET and then
\* SELECT_MODALITY for CHART.
MountEffect ==
  /\ Len(requests) = 0
  /\ 2 <= MaxReq
  /\ requests' = <<createRawMessage("INIT_WIDGET", "null", 0),
                   createRawMessage("SELECT_MODALITY", "CHART", 1)>>
  /\ promises' = <<[state |-> "pending", reason |-> "none"],
                   [state |-> "pending", reason |-> "none"]>>
  /\ timers' = <<NewTimer(DefaultTimeout), NewTimer(DefaultTimeout)>>
  /\ listeners' = {1, 2}
  /\ asked' = <<DefaultTimeout, DefaultTimeout>>
  /\ carried' = <<"none", "none">>
  /\ UNCHANGED <<unhandled, modality>>

\* App with the init request: handleChangeTab.
handleChangeTabInit(tab) ==
  IF tab \notin MULTIMODAL_TABS
    THEN UNCHANGED vars
    ELSE sendMessage("SELECT_MODALITY", tab, DefaultTimeout)

\* App with available_modalities: the effect on availableTabs.
AvailableTabsEffect(availableTabs) ==
  IF availableTabs = <<>>
    THEN UNCHANGED vars
    ELSE sendMessage("SELECT_MODALITY", Head(availableTabs), DefaultTimeout)

\* App with available_modalities: handleChangeTab.
handleChangeTab(tab) ==
  IF ~isMultimodalTabType(tab)
    THEN UNCHANGED vars
    ELSE sendMessage("SELECT_MODALITY", tab, DefaultTimeout)

\* The host pushes available_modalities and the effect on it runs.
PushAvailable(availableTabs) ==
  /\ AvailableTabsEffect(availableTabs)
  /\ lastEvent' = "push"

\* The tab list reports a change of tab to onChangeTab.
ChangeTab(tab) ==
  /\ handleChangeTab(tab)
  /\ lastEvent' = IF tab \in MULTIMODAL_TABS THEN "tab" ELSE "unknown tab"

\* Any other caller of the exported sendMessage, with an explicit timeout.
SendWithTimeout(timeout) ==
  sendMessage("SELECT_MODALITY", "CHART", timeout)

(***************************************************************************)
(* The event-stream client: subscribeOnSpecGeneration and the App that     *)
(* renders the chart from it.                                              *)
(***************************************************************************)

ConnectionStatus == {"initial", "loading", "failed", "loaded"}

GENERATE_SPEC == "GENERATE_SPEC"

MessageTypes == {GENERATE_SPEC, "OTHER"}

BarText == "{\"mark\":\"bar\"}"

LineText == "{\"mark\":\"line\"}"

\* The texts a message carries in its data field: none, two charts, a torn one.
DataTexts == {"", BarText, LineText, "{\"mark\""}

\* JSON.parse of a data text: the value it denotes, or a SyntaxError.
JSONparse(text) ==
  CASE text = BarText -> [ok |-> TRUE, value |-> "bar"]
    [] text = LineText -> [ok |-> TRUE, value |-> "line"]
    [] OTHER -> [ok |-> FALSE, value |-> "null"]

StreamMessages ==
  [type : MessageTypes, status : {"loading", "failed", "loaded"},
   error : ErrorTexts, data : DataTexts]

\* What arrives as event.data: the JSON text of a Message, or a text that is
\* no JSON at all.
StreamEvents ==
  {[json |-> TRUE, message |-> m] : m \in StreamMessages}
    \cup {[json |-> FALSE,
           message |-> [type |-> "OTHER", status |-> "loading",
                        error |-> "boom", data |-> ""]]}

\* JSON.parse(event.data) as Message.
parseEvent(event) == [ok |-> event.json, value |-> event.message]

\* An onSuccess that marks the chart loaded and stores nothing.
onSuccessDropsData(data) ==
  /\ spec' = spec
  /\ specStatus' = "loaded"
  /\ nSuccess' = nSuccess + 1
  /\ UNCHANGED nError

\* App: onSuccess stores the chart and marks it loaded.
onSuccess(data) ==
  /\ spec' = data
  /\ specStatus' = "loaded"
  /\ nSuccess' = nSuccess + 1
  /\ UNCHANGED nError

\* App: onError marks the chart failed and logs the message.
onError ==
  /\ specStatus' = "failed"
  /\ nError' = nError + 1
  /\ UNCHANGED <<spec, nSuccess>>

\* No callback runs.
NoCallback == UNCHANGED <<spec, specStatus, nSuccess, nError>>

\* A setupTimeout that keeps the time already run.
setupTimeoutKeepsAge(t) == [t EXCEPT !.state = "armed"]

\* setupTimeout: drop the running timer and start a new one of the same delay.
setupTimeout(t) == [state |-> "armed", delay |-> t.delay, age |-> 0]

\* App effect on mount: the status becomes loading, the stream is opened and
\* the first deadline is armed.
Subscribe(timeout) ==
  /\ eventSource = "none"
  /\ specStatus' = "loading"
  /\ eventSource' = "open"
  /\ timer' = setupTimeout([state |-> "none", delay |-> timeout, age |-> 0])
  /\ UNCHANGED <<spec, nSuccess, nError, faults, sinceStart, sinceMessage,
                 received>>

\* eventSource.onmessage.
onmessage(event) ==
  /\ eventSource = "open"
  /\ received < MaxEvents
  /\ received' = received + 1
  /\ UNCHANGED <<eventSource, sinceStart>>
  /\ LET parsed == parseEvent(event)
         message == parsed.value
         data == JSONparse(message.data)
     IN  IF ~parsed.ok
           THEN /\ faults' = faults + 1
                /\ UNCHANGED <<timer, sinceMessage>>
                /\ NoCallback
           ELSE /\ timer' = setupTimeout(timer)
                /\ sinceMessage' = 0
                /\ IF message.type # GENERATE_SPEC
                     THEN NoCallback /\ UNCHANGED faults
                     ELSE IF message.status = "failed"
                     THEN onError /\ UNCHANGED faults
                     ELSE IF message.status = "loading"
                     THEN NoCallback /\ UNCHANGED faults
                     ELSE IF message.data = ""
                     THEN onError /\ UNCHANGED faults
                     ELSE IF ~data.ok
                     THEN NoCallback /\ faults' = faults + 1
                     ELSE onSuccess(data.value) /\ UNCHANGED faults

\* eventSource.onerror: the deadline is dropped and the failure reported; the
\* stream itself is left as it is.
onerror ==
  /\ eventSource = "open"
  /\ received < MaxEvents
  /\ received' = received + 1
  /\ timer' = clearTimeout(timer)
  /\ onError
  /\ UNCHANGED <<eventSource, faults, sinceStart, sinceMessage>>

\* A closeConnection that closes the stream and leaves the deadline running.
closeConnectionKeepsTimer ==
  /\ eventSource = "open"
  /\ eventSource' = "closed"
  /\ NoCallback
  /\ UNCHANGED <<timer, faults, sinceStart, sinceMessage, received>>

\* closeConnection: the deadline is dropped and the stream closed.
closeConnection ==
  /\ eventSource = "open"
  /\ timer' = clearTimeout(timer)
  /\ eventSource' = "closed"
  /\ NoCallback
  /\ UNCHANGED <<faults, sinceStart, sinceMessage, received>>

\* The stream's "close" event.
OnClose == closeConnection

\* App effect cleanup on unmount.
Unsubscribe == closeConnection

\* The deadline's callback: the failure is reported and the stream closed.
StreamTimerFire ==
  /\ timer.state = "armed"
  /\ timer.age >= timer.delay
  /\ timer' = [timer EXCEPT !.state = "fired", !.age = 0]
  /\ onError
  /\ eventSource' = "closed"
  /\ UNCHANGED <<faults, sinceStart, sinceMessage, received>>

\* One tick of time while the deadline runs.
StreamTick ==
  /\ timer.state = "armed"
  /\ timer.age < timer.delay
  /\ timer' = [timer EXCEPT !.age = @ + 1]
  /\ sinceStart' = sinceStart + 1
  /\ sinceMessage' = sinceMessage + 1
  /\ UNCHANGED <<eventSource, specStatus, spec, nSuccess, nError, faults,
                 received>>

(***************************************************************************)
(* The tool-host client: DatabaoApp, which connects to the extension host  *)
(* and renders the visualization data of the tool results it is handed.    *)
(***************************************************************************)

VizTextA == "{\"text\":\"a\"}"

VizTextB == "{\"spec\":{},\"text\":\"b\"}"

TornTextA == "{\"text\""

TornTextB == "<html>"

\* The texts a text content item carries: none, two visualization data, the
\* JSON null, and two texts that are no JSON.
ContentTexts == {"", VizTextA, VizTextB, "null", TornTextA, TornTextB}

\* JSON.parse of a content text: the value it denotes, or the SyntaxError
\* it throws.
JSONparseViz(text) ==
  CASE text = VizTextA -> [ok |-> TRUE, value |-> "a", err |-> ""]
    [] text = VizTextB -> [ok |-> TRUE, value |-> "b", err |-> ""]
    [] text = "null" -> [ok |-> TRUE, value |-> "null", err |-> ""]
    [] text = TornTextA ->
         [ok |-> FALSE, value |-> "null",
          err |-> "SyntaxError: Unexpected end of JSON input"]
    [] OTHER ->
         [ok |-> FALSE, value |-> "null",
          err |-> "SyntaxError: Unexpected token <"]

\* "Failed to parse visualization data: " + err
ParseErrorText(err) ==
  IF err = "SyntaxError: Unexpected end of JSON input"
    THEN "Failed to parse visualization data: SyntaxError: Unexpected end of JSON input"
    ELSE "Failed to parse visualization data: SyntaxError: Unexpected token <"

InitErrorText == "Failed to initialize MCP App: Error"

\* MCPToolResult: content is optional; an item has a type and maybe a text.
ToolResults ==
  {[hasContent |-> FALSE, content |-> <<>>],
   [hasContent |-> TRUE, content |-> <<>>],
   [hasContent |-> TRUE, content |-> <<[type |-> "image", text |-> ""]>>]}
  \cup {[hasContent |-> TRUE, content |-> <<[type |-> "text", text |-> t]>>] :
          t \in ContentTexts}
  \cup {[hasContent |-> TRUE,
         content |-> <<[type |-> "image", text |-> ""],
                       [type |-> "text", text |-> VizTextB]>>]}

\* result.content?.find((c) => c.type === "text")
findText(result) ==
  LET at == {i \in 1 .. Len(result.content) : result.content[i].type = "text"}
  IN IF ~result.hasContent \/ at = {}
       THEN [found |-> FALSE, text |-> ""]
       ELSE [found |-> TRUE,
             text |-> result.content[CHOOSE i \in at : \A j \in at : i <= j].text]

\* What DatabaoApp renders: the waiting or error view while data is null.
View ==
  IF mcpData = "null"
    THEN IF mcpError # "null" THEN "error" ELSE "waiting"
    ELSE "tabs"

\* The mount effect: initApp creates the App, sets ontoolresult and starts
\* app.connect().
initApp ==
  /\ mcpPhase = "idle"
  /\ mcpPhase' = "connecting"
  /\ UNCHANGED <<mcpData, mcpError, mcpResults, mcpWaited, mcpLast>>

\* app.connect() resolves.
ConnectResolved ==
  /\ mcpPhase = "connecting"
  /\ mcpPhase' = "connected"
  /\ UNCHANGED <<mcpData, mcpError, mcpResults, mcpWaited, mcpLast>>

\* app.connect() rejects: the catch of initApp sets the error.
ConnectRejected ==
  /\ mcpPhase = "connecting"
  /\ mcpPhase' = "failed"
  /\ mcpError' = InitErrorText
  /\ UNCHANGED <<mcpData, mcpResults, mcpWaited, mcpLast>>

\* An ontoolresult whose catch also drops the data held.
ontoolresultClearsOnError(result) ==
  /\ mcpPhase = "connected"
  /\ mcpResults < MaxResults
  /\ mcpResults' = mcpResults + 1
  /\ UNCHANGED <<mcpPhase, mcpWaited>>
  /\ LET content == findText(result)
         parsed == JSONparseViz(content.text)
     IN  IF ~content.found \/ content.text = ""
           THEN mcpLast' = "ignored" /\ UNCHANGED <<mcpData, mcpError>>
           ELSE IF parsed.ok
                  THEN /\ mcpData' = parsed.value
                       /\ mcpLast' = "stored"
                       /\ UNCHANGED mcpError
                  ELSE /\ mcpError' = ParseErrorText(parsed.err)
                       /\ mcpLast' = "failed"
                       /\ mcpData' = "null"

\* app.ontoolresult
ontoolresult(result) ==
  /\ mcpPhase = "connected"
  /\ mcpResults < MaxResults
  /\ mcpResults' = mcpResults + 1
  /\ UNCHANGED <<mcpPhase, mcpWaited>>
  /\ LET content == findText(result)
         parsed == JSONparseViz(content.text)
     IN  IF ~content.found \/ content.text = ""
           THEN mcpLast' = "ignored" /\ UNCHANGED <<mcpData, mcpError>>
           ELSE IF parsed.ok
                  THEN /\ mcpData' = parsed.value
                       /\ mcpLast' = "stored"
                       /\ UNCHANGED mcpError
                  ELSE /\ mcpError' = ParseErrorText(parsed.err)
                       /\ mcpLast' = "failed"
                       /\ UNCHANGED mcpData

\* One tick of time with the client connected and the waiting view shown;
\* nothing in DatabaoApp is scheduled to run on it.
ToolTick ==
  /\ mcpPhase = "connected"
  /\ View = "waiting"
  /\ mcpWaited < MaxWait
  /\ mcpWaited' = mcpWaited + 1
  /\ UNCHANGED <<mcpPhase, mcpData, mcpError, mcpResults, mcpLast>>

\* ------------------------------------------------------- specifications
Init ==
  /\ requests = <<>>
  /\ promises = <<>>
  /\ timers = <<>>
  /\ listeners = {}
  /\ unhandled = {}
  /\ modality = [k \in MULTIMODAL_TABS |-> "initial"]
  /\ asked = <<>>
  /\ carried = <<>>
  /\ lastEvent = "none"
  /\ StreamIdle
  /\ sending = 0
  /\ registered = 1
  /\ ToolIdle

\* What the channel binding's steps leave alone.
ChannelFrame == UNCHANGED <<streamVars, lastEvent, restVars>>

Next ==
  \/ MountEffect /\ ChannelFrame
  \/ \E tab \in TabValues : handleChangeTabInit(tab) /\ ChannelFrame
  \/ \E l \in AvailableLists : AvailableTabsEffect(l) /\ ChannelFrame
  \/ \E tab \in TabValues : handleChangeTab(tab) /\ ChannelFrame
  \/ \E t \in 1 .. MaxTimeout : SendWithTimeout(t) /\ ChannelFrame
  \/ \E c \in Calls : TimerFire(c) /\ ChannelFrame
  \/ Tick /\ ChannelFrame
  \/ \E msg \in Messages : Deliver(msg) /\ ChannelFrame
  \/ \E k \in SyncedTraits, s \in Status : HostSetStatus(k, s) /\ ChannelFrame

Spec == Init /\ [][Next]_vars

\* The router alone: the status traits take no part in settling a request.
RouterNext ==
  \/ MountEffect /\ ChannelFrame
  \/ \E tab \in TabValues : handleChangeTabInit(tab) /\ ChannelFrame
  \/ \E l \in AvailableLists : AvailableTabsEffect(l) /\ ChannelFrame
  \/ \E tab \in TabValues : handleChangeTab(tab) /\ ChannelFrame
  \/ \E t \in 1 .. MaxTimeout : SendWithTimeout(t) /\ ChannelFrame
  \/ \E c \in Calls : TimerFire(c) /\ ChannelFrame
  \/ Tick /\ ChannelFrame
  \/ \E msg \in Messages : Deliver(msg) /\ ChannelFrame

RouterSpec == Init /\ [][RouterNext]_vars

\* Time passes, and the event loop runs an armed timer whose delay has elapsed.
FairSpec ==
  /\ RouterSpec
  /\ WF_vars(Tick)
  /\ \A c \in 1 .. MaxReq : WF_vars(c \in Calls /\ TimerFire(c))

\* The App with available_modalities on its own: host pushes, tab changes,
\* and the router's timers and deliveries.
AppNext ==
  \/ \E l \in AvailableLists : PushAvailable(l) /\ UNCHANGED <<streamVars, restVars>>
  \/ \E tab \in TabValues : ChangeTab(tab) /\ UNCHANGED <<streamVars, restVars>>
  \/ \E c \in Calls : TimerFire(c) /\ ChannelFrame
  \/ Tick /\ ChannelFrame
  \/ \E msg \in Messages : Deliver(msg) /\ ChannelFrame

AppSpec == Init /\ [][AppNext]_<<vars, lastEvent>>

\* sendMessage taken in its two parts, with a transport that may answer
\* before model.send returns.
SendFrame == UNCHANGED <<streamVars, lastEvent, registered, toolVars>>

SendNext ==
  \/ \E tab \in MULTIMODAL_TABS :
       sendMessageSend("SELECT_MODALITY", tab, DefaultTimeout) /\ SendFrame
  \/ sendMessageRegister /\ SendFrame
  \/ \E msg \in Messages : ReplyDuringSend(msg) /\ ChannelFrame
  \/ \E c \in Calls : sending = 0 /\ TimerFire(c) /\ ChannelFrame
  \/ sending = 0 /\ Tick /\ ChannelFrame
  \/ \E msg \in Messages : sending = 0 /\ Deliver(msg) /\ ChannelFrame

SendSpec == Init /\ [][SendNext]_<<vars, sending>>

\* The App re-rendered any number of times between the events of the router.
RenderFrame == UNCHANGED <<streamVars, lastEvent, sending, toolVars>>

RenderNext ==
  \/ Render /\ RenderFrame
  \/ \E tab \in TabValues : handleChangeTab(tab) /\ ChannelFrame
  \/ \E c \in Calls : TimerFire(c) /\ ChannelFrame
  \/ Tick /\ ChannelFrame
  \/ \E msg \in Messages : Deliver(msg) /\ ChannelFrame

RenderSpec == Init /\ [][RenderNext]_<<vars, registered>>

\* What the tool-host client's steps leave alone.
ToolFrame == UNCHANGED <<vars, streamVars, lastEvent, sending, registered>>

ToolNext ==
  \/ initApp /\ ToolFrame
  \/ ConnectResolved /\ ToolFrame
  \/ ConnectRejected /\ ToolFrame
  \/ \E result \in ToolResults : ontoolresult(result) /\ ToolFrame
  \/ ToolTick /\ ToolFrame

ToolSpec == Init /\ [][ToolNext]_toolVars

\* The effect runs after mount, the connection attempt comes to an end, and
\* time passes; when the host delivers a tool result is up to the host.
FairToolSpec ==
  /\ ToolSpec
  /\ WF_toolVars(initApp)
  /\ WF_toolVars(ConnectResolved \/ ConnectRejected)
  /\ WF_toolVars(ToolTick)

\* What the event-stream client's steps leave alone.
StreamFrame == UNCHANGED <<vars, lastEvent, restVars>>

StreamNext ==
  \/ \E t \in 1 .. MaxTimeout : Subscribe(t) /\ StreamFrame
  \/ \E e \in StreamEvents : onmessage(e) /\ StreamFrame
  \/ onerror /\ StreamFrame
  \/ OnClose /\ StreamFrame
  \/ Unsubscribe /\ StreamFrame
  \/ StreamTimerFire /\ StreamFrame
  \/ StreamTick /\ StreamFrame

StreamSpec == Init /\ [][StreamNext]_streamVars


Pending(c) == promises[c].state = "pending"
TimedOut(c) == promises[c].state = "rejected" /\ promises[c].reason = TimeoutError

\* ------------------------------------------------------------------ C1
\* C1: the promise of a sendMessage call is settled at most once: once it is
\* resolved or rejected, no later response delivery (repeated or not) and no
\* timer firing changes its state or its reason.
C1_SettledAtMostOnce ==
  [][\A c \in Calls : ~Pending(c) => promises'[c] = promises[c]]_vars

\* Both the deadline timer and a response have acted on one call.
C1_Witness ==
  \E c \in Calls : timers[c].state = "fired" /\ c \notin listeners

\* ------------------------------------------------------------------ C2
\* C2: every sendMessage call eventually settles: its promise is eventually
\* resolved or rejected, whether the host answers or not.
C2_EventuallySettles ==
  \A c \in 1 .. MaxReq : (c \in Calls) ~> (c \in Calls /\ ~Pending(c))

\* One call settled by its timer and another by a failure response.
C2_Witness ==
  \E c, d \in Calls :
    /\ TimedOut(c)
    /\ promises[d].state = "rejected" /\ promises[d].reason = RequestFailedError

\* ------------------------------------------------------------------ C3
\* C3: a call with timeout T that is still pending has its timer armed for T
\* and at most T ticks have passed; the timer rejects it only when T ticks have
\* passed since the call; and once a response has been handled (timer
\* cleared) the timer never fires and never rejects the call.
C3_TimeoutTiming ==
  [][\A c \in Calls :
       /\ Pending(c) =>
            /\ timers[c].state = "armed"
            /\ timers[c].delay = asked[c]
            /\ timers[c].age <= asked[c]
       /\ (timers[c].state = "armed" /\ timers'[c].state = "fired") =>
            timers[c].age >= asked[c]
       /\ (Pending(c) /\ promises'[c].reason = TimeoutError) =>
            timers[c].age >= asked[c]
       /\ timers[c].state = "cleared" =>
            /\ timers'[c].state = "cleared"
            /\ promises'[c] = promises[c]]_vars

\* A call with the short timeout was rejected by its timer while a call
\* answered in time has its timer cleared.
C3_Witness ==
  \E c, d \in Calls :
    /\ TimedOut(c) /\ asked[c] = 1
    /\ promises[d].state = "resolved" /\ timers[d].state = "cleared"

\* ------------------------------------------------------------------ C4
\* C4: a request rejected by a failure response is rejected with the error
\* text that response carried.
C4_FailureCarriesError ==
  \A c \in Calls :
    carried[c] # "none" =>
      promises[c].state = "rejected" /\ promises[c].reason = carried[c]

\* ------------------------------------------------------------------ C5
\* A response for the id of a call whose timer has already rejected it.
Late(msg) ==
  /\ msg.type = "databao_response"
  /\ \E c \in Calls : requests[c].messageId = msg.messageId /\ TimedOut(c)

\* C5: handling a response whose request has already timed out changes no
\* promise (the request stays rejected by the timeout, no other request is
\* settled), no timer, and no modality status.
C5_LateResponseSettlesNothing ==
  [][\A msg \in Messages :
       (Late(msg) /\ Deliver(msg)) =>
         /\ promises' = promises
         /\ timers' = timers
         /\ unhandled' = unhandled
         /\ modality' = modality]_vars

\* A late response was handled for a timed-out call while the chart trait
\* holds a value pushed by the host.
C5_Witness ==
  \E c \in Calls :
    /\ TimedOut(c) /\ c \notin listeners
    /\ modality["CHART"] = "computated"

\* ------------------------------------------------------------------ C6
\* C6: once a request is settled (resolved, rejected by a failure response or
\* rejected by timeout) its timer is not armed and its listener is not
\* registered.
C6_NoEntrySurvivesSettlement ==
  \A c \in Calls :
    ~Pending(c) => timers[c].state # "armed" /\ c \notin listeners

\* ------------------------------------------------------------------ C7
\* A response whose id matches no outstanding request.
Unrecognized(msg) ==
  /\ msg.type = "databao_response"
  /\ ~\E c \in Calls : requests[c].messageId = msg.messageId /\ Pending(c)

\* C7: handling a response with an unrecognized id settles nothing, rejects
\* nothing, and leaves every outstanding request pending, listening, with its
\* timer armed as it was.
C7_UnrecognizedIdIgnored ==
  [][\A msg \in Messages :
       (Unrecognized(msg) /\ Deliver(msg)) =>
         /\ promises' = promises
         /\ timers' = timers
         /\ unhandled' = unhandled
         /\ \A c \in Calls : Pending(c) => (c \in listeners <=> c \in listeners')]_vars

\* A response for an id no longer outstanding was handled while another
\* request is still pending with its timer armed.
C7_Witness ==
  \E c, d \in Calls :
    /\ TimedOut(c) /\ c \notin listeners
    /\ Pending(d) /\ timers[d].state = "armed" /\ d \in listeners

\* ------------------------------------------------------------------ C8
\* The calls a step changed.
Changed(c) ==
  \/ promises'[c] # promises[c]
  \/ timers'[c] # timers[c]
  \/ (c \in listeners) # (c \in listeners')

\* C8: with several requests outstanding, handling a response changes at most
\* one call, the one whose messageId the response carries; if that call is
\* pending it is settled with the response's outcome.
C8_CorrelatedByIdOnly ==
  [][\A msg \in Messages :
       Deliver(msg) =>
         /\ \A c \in Calls : Changed(c) => requests[c].messageId = msg.messageId
         /\ Cardinality({c \in Calls : Changed(c)}) <= 1
         /\ \A c \in Calls :
              (/\ msg.type = "databao_response"
               /\ requests[c].messageId = msg.messageId
               /\ Pending(c)) =>
                promises'[c].state = IF msg.success THEN "resolved" ELSE "rejected"]_vars

\* The later of two outstanding requests was answered first.
C8_Witness ==
  \E c, d \in Calls :
    /\ c < d
    /\ promises[d].state = "resolved"
    /\ Pending(c) /\ timers[c].state = "armed" /\ c \in listeners

\* ------------------------------------------------------------------ C9
\* A pending selection after which the same modality was selected again.
Superseded(c) ==
  /\ Pending(c)
  /\ requests[c].action.type = "SELECT_MODALITY"
  /\ \E d \in Calls : d > c /\ requests[d].action = requests[c].action

\* C9: the late success response of a superseded selection is discarded: it
\* does not resolve the superseded request.
C9_SupersededDiscarded ==
  [][\A c \in Calls : Superseded(c) => promises'[c].state # "resolved"]_vars

\* ------------------------------------------------------------------ C10
\* C10: every rejected request is consumed (no unhandled rejection) and its
\* modality shows the failed status.
C10_RejectionsSurfaced ==
  \A c \in Calls :
    promises[c].state = "rejected" =>
      /\ c \notin unhandled
      /\ requests[c].action.payload \in MULTIMODAL_TABS =>
           modality[requests[c].action.payload] = "failed"

\* C11: the chart status only moves initial -> loading -> loaded or failed;
\* once it is loaded or failed no later message, transport error or timer
\* changes it.
C11_StatusMonotonic ==
  [][/\ specStatus = "initial" => specStatus' \in {"initial", "loading"}
     /\ specStatus = "loading" => specStatus' \in {"loading", "loaded", "failed"}
     /\ specStatus \in {"loaded", "failed"} => specStatus' = specStatus]_streamVars

\* C12: for one subscription, onSuccess and onError are invoked at most once
\* in total.
C12_CallbacksAtMostOnce == nSuccess + nError <= 1

C14_ValueOnlyWhenLoaded == spec # "null" => specStatus = "loaded"

\* C15: from loading, a message of the expected type with status loaded whose
\* data is the JSON text of a chart d makes the status loaded and stores
\* exactly d.
C15_SuccessStoresPayload ==
  [][\A p \in {<<BarText, "bar">>, <<LineText, "line">>} :
       \A e \in StreamEvents :
         (/\ specStatus = "loading"
          /\ e.json
          /\ e.message.type = GENERATE_SPEC
          /\ e.message.status = "loaded"
          /\ e.message.data = p[1]
          /\ onmessage(e))
           => (specStatus' = "loaded" /\ spec' = p[2])]_streamVars

\* The first callback of a subscription was the success that stored a chart.
C15_Witness ==
  /\ specStatus = "loaded"
  /\ spec = "line"
  /\ nSuccess = 1
  /\ nError = 0

\* A SELECT_MODALITY request has been handed to the transport.
Active == \E c \in Calls : requests[c].action.type = "SELECT_MODALITY"

C17_AutoSelectOnlyWhenNoneActive ==
  [][\A l \in AvailableLists :
       (PushAvailable(l) /\ lastEvent' = "push") =>
         IF l = <<>> \/ Active
           THEN UNCHANGED vars
           ELSE sendMessage("SELECT_MODALITY", Head(l), DefaultTimeout)
    ]_<<vars, lastEvent>>

\* C18: a tab change to a recognized kind moves the status of that kind to
\* computating (loading) in the same step, whatever it was before.
C18_SelectResetsToLoading ==
  [][\A tab \in MULTIMODAL_TABS :
       ChangeTab(tab) => modality'[tab] = "computating"
    ]_<<vars, lastEvent>>

\* C19: every sendMessage call hands one request to the transport, under an
\* id no other request has, and nothing else ever hands one over: not the
\* timeout, not a failure response.
C19_OneRequestPerCall ==
  /\ Len(requests) = Len(promises)
  /\ \A c, d \in 1 .. Len(requests) :
       c # d => requests[c].messageId # requests[d].messageId
  /\ \A c \in 1 .. Len(requests) :
       /\ requests[c].action.type = "SELECT_MODALITY"
       /\ requests[c].action.payload \in MULTIMODAL_TABS

\* One request timed out, another was answered with a failure, and the
\* transport has seen those two requests only.
C19_Witness ==
  /\ Len(requests) = 2
  /\ \E c \in Calls : TimedOut(c)
  /\ \E c \in Calls :
       promises[c].state = "rejected" /\ promises[c].reason = RequestFailedError

\* C20: a malformed inbound message is dropped without effect.  On the
\* channel a message of another type than the response type changes nothing;
\* on the event stream a message whose body does not parse runs no callback,
\* changes no status, leaves the deadline and the stream alone, and throws
\* nothing out of the handler.
C20_MalformedDropped ==
  [][/\ \A msg \in Messages :
          (msg.type # "databao_response" /\ Deliver(msg)) => UNCHANGED vars
     /\ \A e \in StreamEvents :
          (~e.json /\ onmessage(e)) =>
            /\ UNCHANGED <<specStatus, spec, nSuccess, nError, timer,
                           eventSource>>
            /\ faults' = faults
    ]_<<vars, streamVars>>

\* C22: at the moment the request has been handed to model.send, the listener
\* for its messageId and its deadline timer are registered.
C22_PendingEntryBeforeSend ==
  sending # 0 =>
    /\ sending \in listeners
    /\ timers[sending].state = "armed"

\* C23: with any number of msg:custom handlers registered, a response settles
\* the pending request that listens for its messageId with the response's
\* outcome, leaves every other request as it was, and a settled request is
\* never changed by any step.
C23_RepeatedRegistrationHarmless ==
  [][/\ \A msg \in Messages :
          Deliver(msg) =>
            \A c \in Calls :
              promises'[c] =
                IF /\ Pending(c)
                   /\ c \in listeners
                   /\ msg.type = "databao_response"
                   /\ msg.messageId = requests[c].messageId
                  THEN IF msg.success
                         THEN [state |-> "resolved", reason |-> "none"]
                         ELSE [state |-> "rejected",
                               reason |-> RequestFailedError]
                  ELSE promises[c]
     /\ \A c \in Calls : ~Pending(c) => promises'[c] = promises[c]
    ]_<<vars, registered>>

\* With several handlers registered, one of two pending requests was resolved
\* by its response and the other is still pending.
C23_Witness ==
  /\ registered >= 2
  /\ Len(requests) = 2
  /\ \E c \in Calls : promises[c].state = "resolved"
  /\ \E c \in Calls : Pending(c) /\ c \in listeners

\* C24: once the subscription is closed, by its deadline or by unsubscribe,
\* the deadline is not armed, no callback is invoked again and the stream
\* stays closed.
C24_ClosedIsSilent ==
  [][/\ eventSource' = "closed" => timer'.state # "armed"
     /\ eventSource = "closed" =>
          /\ nSuccess' = nSuccess
          /\ nError' = nError
          /\ specStatus' = specStatus
          /\ spec' = spec
          /\ eventSource' = "closed"
    ]_streamVars

\* The subscription was closed by unsubscribe after one chart had arrived,
\* while the stream still had events to deliver.
C24_Witness ==
  /\ eventSource = "closed"
  /\ timer.state = "cleared"
  /\ nSuccess = 1
  /\ nError = 0
  /\ received < MaxEvents

\* C25: once the tool-host client is connected, either a tool result arrives
\* or the client comes to show its failed view.
C25_WaitingEnds ==
  (mcpPhase = "connected") ~> (mcpResults > 0 \/ View = "error")

\* The result has no content item of type text.
NoTextItem(result) ==
  \/ ~result.hasContent
  \/ \A i \in 1 .. Len(result.content) : result.content[i].type # "text"

\* The result's text item carries a text that is no JSON.
TornItem(result) ==
  /\ result.hasContent
  /\ \E i \in 1 .. Len(result.content) :
       /\ result.content[i].type = "text"
       /\ result.content[i].text \in {TornTextA, TornTextB}

\* C26: a tool result with no text item, or with a text that does not parse,
\* leaves the data as it is; when data is held the tabs stay shown, and the
\* error view is shown only while no data is held.
C26_UnusableResultKeepsData ==
  [][\A result \in ToolResults :
       ((NoTextItem(result) \/ TornItem(result)) /\ ontoolresult(result)) =>
         /\ mcpData' = mcpData
         /\ mcpData # "null" => View' = "tabs"
         /\ View' = "error" => mcpData' = "null"
    ]_toolVars

\* The last result did not parse, its error is recorded, and the data stored
\* before it is still held and shown.
C26_Witness ==
  /\ mcpLast = "failed"
  /\ mcpData = "a"
  /\ mcpError # "null"
  /\ View = "tabs"

====
